---------------------------- MODULE Spec2Model ----------------------------
(***************************************************************************)
(* A model of the checkpointed step runner (orchestrator.py), of the       *)
(* API-enablement step (enabled_apis.py) and of the service-account       *)
(* functions (test.py).                                                    *)
(*                                                                         *)
(* The runner is one sequential process; its position is pc.  The          *)
(* checkpoint file is modelled by the chunks json.dump has written to it,  *)
(* so that a crash or an I/O error in the middle of save_checkpoint leaves *)
(* what the code leaves: a truncated file.  The process can be started     *)
(* again after it returned, raised or crashed.                             *)
(***************************************************************************)
EXTENDS Naturals, Sequences, FiniteSets

VARIABLES
  file,       \* orchestration_state.json: [exists, content], content = chunks written
  pc,         \* position of orchestrator.main
  state,      \* main's local `state`: [completed |-> <<names>>]
  i,          \* index into STEPS of the loop variable s
  pending,    \* chunks json.dump has still to write in the current save_checkpoint
  before,     \* the file as it was when the current save_checkpoint was entered
  runs,       \* number of times main was started
  run,        \* history of the current run of main (what was loaded, invoked, how it ended)
  prev,       \* how the previous run of main ended
  succeeded,  \* names of the steps whose invocation has returned without error
  persistedBefore, \* names held by a complete checkpoint when the current run started
  api_arg,    \* enable_apis: the api_list argument
  api_list,   \* enable_apis: the list iterated (after the default is applied)
  apc,        \* enable_apis: position
  aidx,       \* enable_apis: index of the loop variable api in api_list
  polls,      \* enable_apis: operations().get calls made for the current API
  arun,       \* enable_apis: history of the call
  policy,     \* test.py: the IAM policy of the target project, as the remote holds it
  policy0,    \* test.py: the remote policy when the current call began
  local,      \* assign_roles_to_sa_in_project: the local variable `policy`
  rpc,        \* assign_roles_to_sa_in_project: position
  rolesArg,   \* assign_roles_to_sa_in_project: the argument `roles`
  ridx,       \* assign_roles_to_sa_in_project: index of the loop variable role
  rlog,       \* the getIamPolicy / setIamPolicy calls the current call has issued
  ncalls,     \* number of calls of assign_roles_to_sa_in_project so far
  ext,        \* number of policy modifications made by other writers
  sa_accounts, \* test.py: the service accounts the remote holds
  sa_calls    \* the calls of create_service_account made so far, with their results

orchVars == <<file, pc, state, i, pending, before, runs, run, prev, succeeded,
              persistedBefore>>
apiVars == <<api_arg, api_list, apc, aidx, polls, arun>>
iamVars == <<policy, policy0, local, rpc, rolesArg, ridx, rlog, ncalls, ext>>
saVars == <<sa_accounts, sa_calls>>
vars == <<file, pc, state, i, pending, before, runs, run, prev, succeeded,
          persistedBefore, api_arg, api_list, apc, aidx, polls, arun,
          policy, policy0, local, rpc, rolesArg, ridx, rlog, ncalls, ext,
          sa_accounts, sa_calls>>

---------------------------------------------------------------------------
(* Bounds of the model *)

\* main is started at most MaxRuns times
MaxRuns == 3

\* a polling loop is followed for at most MaxPolls "not done" answers
MaxPolls == 2

\* explicit api_list arguments have at most MaxApiLen entries
MaxApiLen == 3

\* the `roles` argument has at most MaxRoles entries
MaxRoles == 2

\* assign_roles_to_sa_in_project is called at most MaxAssignCalls times
MaxAssignCalls == 3

\* other writers modify the project policy at most MaxExternal times
MaxExternal == 1

\* create_service_account is called at most MaxSaCalls times
MaxSaCalls == 3

---------------------------------------------------------------------------
(* orchestrator.py *)

STEPS ==
  << [name |-> "create_project", module |-> "scripts.create_project",
      func |-> "run_project_creation"],
     [name |-> "enable_apis", module |-> "scripts.enable_apis", func |-> "main"],
     [name |-> "configure_network", module |-> "scripts.configure_network",
      func |-> "main"],
     [name |-> "deploy_app", module |-> "scripts.deploy_app", func |-> "main"] >>

StepNames == { STEPS[k].name : k \in DOMAIN STEPS }

\* `x in lst` on a Python list
InList(x, lst) == \E k \in DOMAIN lst : lst[k] = x

\* The chunks of JSON text that are structure, not step names.
Punct == {"{", "\"completed\":", "[", "]", "}"}

\* A faulty json_dump: the list is written without its last entry (the state
\* saved is the one from before the append).
json_dumpMutant(st) ==
  <<"{", "\"completed\":", "[">>
    \o (IF st.completed = <<>> THEN <<>>
        ELSE SubSeq(st.completed, 1, Len(st.completed) - 1))
    \o <<"]", "}">>

\* json.dump(state, f, indent=2): the chunks written, in order.
json_dump(st) == <<"{", "\"completed\":", "[">> \o st.completed \o <<"]", "}">>

\* json.load(f) on the chunks of a file: the decoded state, or a JSONDecodeError
\* (ok = FALSE) for anything that is not a complete document, an empty file
\* included.
json_load(c) ==
  LET n == Len(c) IN
  IF /\ n >= 5
     /\ SubSeq(c, 1, 3) = <<"{", "\"completed\":", "[">>
     /\ SubSeq(c, n - 1, n) = <<"]", "}">>
     /\ \A k \in 4 .. (n - 2) : c[k] \notin Punct
  THEN [ok |-> TRUE, value |-> [completed |-> SubSeq(c, 4, n - 2)]]
  ELSE [ok |-> FALSE, value |-> [completed |-> <<>>]]

\* load_checkpoint(): the stored state when the file exists, a fresh state
\* otherwise; ok = FALSE when json.load raises.
load_checkpoint(f) ==
  IF f.exists THEN json_load(f.content)
  ELSE [ok |-> TRUE, value |-> [completed |-> <<>>]]

\* How run_step can end: it returns, or import_module / getattr / the call
\* raise an Exception, or the call raises a BaseException that is no Exception
\* (KeyboardInterrupt, SystemExit).
Exceptions == {"ImportError", "AttributeError", "CallError"}
RunStepOutcomes == {"ok", "Interrupt"} \cup Exceptions

\* A faulty handler that catches nothing.
CaughtMutant(outcome) == FALSE

\* `except Exception` of main: the outcomes the handler catches.
Caught(outcome) == outcome \in Exceptions

\* A faulty append, made whether or not run_step returned.
CompletedAfterMutant(st, name, outcome) ==
  [st EXCEPT !.completed = Append(@, name)]

\* state["completed"] after run_step ended with `outcome`: the append of
\* line 63 is reached only when run_step returned.
CompletedAfter(st, name, outcome) ==
  IF outcome = "ok" THEN [st EXCEPT !.completed = Append(@, name)] ELSE st

\* A faulty handler without the `break`: the loop goes on after an error.
PcAfterMutant(outcome) ==
  IF outcome = "ok" THEN "save" ELSE IF Caught(outcome) THEN "loop" ELSE "raised"

\* Where main goes after run_step ended with `outcome`: on to save_checkpoint,
\* out of the loop by `break` (main returns), or out of main by the exception.
PcAfter(outcome) ==
  IF outcome = "ok" THEN "save" ELSE IF Caught(outcome) THEN "returned" ELSE "raised"

\* A faulty membership test that never finds the step.
AlreadyDoneMutant(st, name) == FALSE

\* A faulty test that takes the completed list for a count of leading steps.
AlreadyDoneByCountMutant(st, name) ==
  \E k \in 1..Len(st.completed) : k \in DOMAIN STEPS /\ STEPS[k].name = name

\* `if step_name in state["completed"]` of main.
AlreadyDone(st, name) == InList(name, st.completed)

NoRun ==
  [loaded |-> <<>>, loadOk |-> TRUE, startFile |-> [exists |-> FALSE, content |-> <<>>],
   invoked |-> <<>>, failed |-> "none", stop |-> "none", lastOk |-> 0, writes |-> 0,
   crashAt |-> "none"]

NoPrev ==
  [pc |-> "idle", failed |-> "none", stop |-> "none", lastOk |-> 0,
   crashAt |-> "none", invoked |-> <<>>, completed |-> <<>>]

Absent == [exists |-> FALSE, content |-> <<>>]

InitOrch ==
  /\ file = Absent
  /\ pc = "idle"
  /\ state = [completed |-> <<>>]
  /\ i = 1
  /\ pending = <<>>
  /\ before = Absent
  /\ runs = 0
  /\ run = NoRun
  /\ prev = NoPrev
  /\ succeeded = {}
  /\ persistedBefore = {}

Ended == pc \in {"returned", "raised", "crashed"}

\* main, lines 51-52: the process is started and the checkpoint loaded.  A
\* JSONDecodeError of load_checkpoint is outside the try block and leaves main.
StartRun ==
  /\ pc = "idle" \/ Ended
  /\ runs < MaxRuns
  /\ runs' = runs + 1
  /\ LET l == load_checkpoint(file) IN
     /\ state' = l.value
     /\ pc' = IF l.ok THEN "loop" ELSE "raised"
     /\ run' = [NoRun EXCEPT !.loaded = l.value.completed, !.loadOk = l.ok,
                             !.startFile = file,
                             !.stop = IF l.ok THEN "none" ELSE "LoadError"]
     /\ persistedBefore' =
          persistedBefore \cup
            (IF file.exists /\ l.ok THEN {l.value.completed[k] : k \in DOMAIN l.value.completed}
             ELSE {})
  /\ prev' = [pc |-> pc, failed |-> run.failed, stop |-> run.stop,
              lastOk |-> run.lastOk, crashAt |-> run.crashAt,
              invoked |-> run.invoked, completed |-> state.completed]
  /\ i' = 1
  /\ pending' = <<>>
  /\ before' = Absent
  /\ UNCHANGED <<file, succeeded>>
  /\ UNCHANGED <<apiVars, iamVars, saVars>>

\* main, lines 56-58: the step is already in the completed list.
SkipStep ==
  /\ pc = "loop"
  /\ i <= Len(STEPS)
  /\ AlreadyDone(state, STEPS[i].name)
  /\ i' = i + 1
  /\ UNCHANGED <<file, pc, state, pending, before, runs, run, prev, succeeded,
                 persistedBefore>>
  /\ UNCHANGED <<apiVars, iamVars, saVars>>

\* A faulty main whose append and save follow the try block instead of being
\* in it: they are reached after a caught error too.
InvokeStepMutant(outcome) ==
  /\ pc = "loop"
  /\ i <= Len(STEPS)
  /\ ~AlreadyDone(state, STEPS[i].name)
  /\ state' = [state EXCEPT !.completed = Append(@, STEPS[i].name)]
  /\ pc' = IF outcome = "Interrupt" THEN "raised" ELSE "save"
  /\ succeeded' = IF outcome = "ok" THEN succeeded \cup {STEPS[i].name} ELSE succeeded
  /\ run' = [run EXCEPT !.invoked = Append(@, STEPS[i].name),
                        !.failed = IF outcome = "ok" THEN @ ELSE STEPS[i].name,
                        !.stop = IF outcome = "ok" THEN @ ELSE outcome]
  /\ UNCHANGED <<file, i, pending, before, runs, prev, persistedBefore>>
  /\ UNCHANGED <<apiVars, iamVars, saVars>>

\* A faulty main whose except clause goes on with the next step (`continue`
\* where the code has `break`).
InvokeStepContinueMutant(outcome) ==
  /\ pc = "loop"
  /\ i <= Len(STEPS)
  /\ ~AlreadyDone(state, STEPS[i].name)
  /\ state' = CompletedAfter(state, STEPS[i].name, outcome)
  /\ pc' = IF outcome = "ok" THEN "save" ELSE IF Caught(outcome) THEN "loop" ELSE "raised"
  /\ i' = IF outcome # "ok" /\ Caught(outcome) THEN i + 1 ELSE i
  /\ succeeded' = IF outcome = "ok" THEN succeeded \cup {STEPS[i].name} ELSE succeeded
  /\ run' = [run EXCEPT !.invoked = Append(@, STEPS[i].name),
                        !.failed = IF outcome = "ok" THEN @ ELSE STEPS[i].name,
                        !.stop = IF outcome = "ok" THEN @ ELSE outcome]
  /\ UNCHANGED <<file, pending, before, runs, prev, persistedBefore>>
  /\ UNCHANGED <<apiVars, iamVars, saVars>>

\* main, lines 60-63 and 65-69: run_step is called and ends with `outcome`.
InvokeStep(outcome) ==
  /\ pc = "loop"
  /\ i <= Len(STEPS)
  /\ ~AlreadyDone(state, STEPS[i].name)
  /\ state' = CompletedAfter(state, STEPS[i].name, outcome)
  /\ pc' = PcAfter(outcome)
  /\ succeeded' = IF outcome = "ok" THEN succeeded \cup {STEPS[i].name} ELSE succeeded
  /\ run' = [run EXCEPT !.invoked = Append(@, STEPS[i].name),
                        !.failed = IF outcome = "ok" THEN @ ELSE STEPS[i].name,
                        !.stop = IF outcome = "ok" THEN @ ELSE outcome]
  /\ UNCHANGED <<file, i, pending, before, runs, prev, persistedBefore>>
  /\ UNCHANGED <<apiVars, iamVars, saVars>>

\* A faulty main that batches persistence: after a successful step it goes on
\* to the next step without writing the checkpoint.
SaveOpenMutant ==
  /\ pc = "save"
  /\ pc' = "loop"
  /\ i' = i + 1
  /\ UNCHANGED <<file, state, pending, before, runs, run, prev, succeeded,
                 persistedBefore>>
  /\ UNCHANGED <<apiVars, iamVars, saVars>>

\* save_checkpoint, line 43: open(CHECKPOINT_FILE, "w") creates or truncates the file.
SaveOpen ==
  /\ pc = "save"
  /\ before' = file
  /\ file' = [exists |-> TRUE, content |-> <<>>]
  /\ pending' = json_dump(state)
  /\ pc' = "write"
  /\ run' = [run EXCEPT !.writes = @ + 1]
  /\ UNCHANGED <<state, i, runs, prev, succeeded, persistedBefore>>
  /\ UNCHANGED <<apiVars, iamVars, saVars>>

\* save_checkpoint, line 43: open raises an OSError, which main's handler
\* catches (the call is inside the try block): the file is untouched.
SaveOpenFails ==
  /\ pc = "save"
  /\ pc' = "returned"
  /\ run' = [run EXCEPT !.failed = STEPS[i].name, !.stop = "SaveError"]
  /\ UNCHANGED <<file, state, i, pending, before, runs, prev, succeeded,
                 persistedBefore>>
  /\ UNCHANGED <<apiVars, iamVars, saVars>>

\* save_checkpoint, line 44: json.dump writes its next chunk.
SaveWrite ==
  /\ pc = "write"
  /\ pending # <<>>
  /\ file' = [file EXCEPT !.content = Append(@, Head(pending))]
  /\ pending' = Tail(pending)
  /\ UNCHANGED <<pc, state, i, before, runs, run, prev, succeeded, persistedBefore>>
  /\ UNCHANGED <<apiVars, iamVars, saVars>>

\* save_checkpoint, line 44: a write raises an OSError (disk full), caught by
\* main's handler; what was written stays in the file.
SaveWriteFails ==
  /\ pc = "write"
  /\ pending # <<>>
  /\ pc' = "returned"
  /\ run' = [run EXCEPT !.failed = STEPS[i].name, !.stop = "SaveError"]
  /\ UNCHANGED <<file, state, i, pending, before, runs, prev, succeeded,
                 persistedBefore>>
  /\ UNCHANGED <<apiVars, iamVars, saVars>>

\* save_checkpoint returns (the file is closed) and the loop goes on.
SaveClose ==
  /\ pc = "write"
  /\ pending = <<>>
  /\ pc' = "loop"
  /\ run' = [run EXCEPT !.lastOk = i]
  /\ i' = i + 1
  /\ UNCHANGED <<file, state, pending, before, runs, prev, succeeded,
                 persistedBefore>>
  /\ UNCHANGED <<apiVars, iamVars, saVars>>

\* main: the for loop is exhausted and main returns.
LoopEnd ==
  /\ pc = "loop"
  /\ i > Len(STEPS)
  /\ pc' = "returned"
  /\ UNCHANGED <<file, state, i, pending, before, runs, run, prev, succeeded,
                 persistedBefore>>
  /\ UNCHANGED <<apiVars, iamVars, saVars>>

\* The process is killed (or the machine stops) while main runs.
Crash ==
  /\ pc \in {"loop", "save", "write"}
  /\ pc' = "crashed"
  /\ run' = [run EXCEPT !.crashAt = pc]
  /\ UNCHANGED <<file, state, i, pending, before, runs, prev, succeeded,
                 persistedBefore>>
  /\ UNCHANGED <<apiVars, iamVars, saVars>>

NextOrch ==
  \/ StartRun
  \/ SkipStep
  \/ \E outcome \in RunStepOutcomes : InvokeStep(outcome)
  \/ SaveOpen
  \/ SaveOpenFails
  \/ SaveWrite
  \/ SaveWriteFails
  \/ SaveClose
  \/ LoopEnd
  \/ Crash

---------------------------------------------------------------------------
(* enabled_apis.py *)

REQUIRED_APIS ==
  << "certificatemanager.googleapis.com", "cloudresourcemanager.googleapis.com",
     "iam.googleapis.com", "iamcredentials.googleapis.com", "sts.googleapis.com",
     "serviceusage.googleapis.com", "cloudbilling.googleapis.com",
     "compute.googleapis.com", "dns.googleapis.com", "logging.googleapis.com",
     "monitoring.googleapis.com", "cloudkms.googleapis.com",
     "orgpolicy.googleapis.com", "servicenetworking.googleapis.com",
     "artifactregistry.googleapis.com", "run.googleapis.com",
     "storage.googleapis.com", "sqladmin.googleapis.com",
     "aiplatform.googleapis.com", "bigquery.googleapis.com",
     "cloudbuild.googleapis.com", "pubsub.googleapis.com", "spanner.googleapis.com",
     "secretmanager.googleapis.com", "vpcaccess.googleapis.com",
     "networkservices.googleapis.com", "eventarc.googleapis.com",
     "notebooks.googleapis.com" >>

\* The API identifiers of explicit api_list arguments.
TestApis == {"x.googleapis.com", "y.googleapis.com"}

\* The api_list arguments: None and the empty list (both <<>>) and the lists
\* over TestApis up to MaxApiLen entries.
ApiArgs == UNION { [1 .. n -> TestApis] : n \in 0 .. MaxApiLen }

\* A faulty default that is never applied.
EffectiveListMutant(arg) == arg

\* `api_list or REQUIRED_APIS`, line 50: None and [] are both falsy.
EffectiveList(arg) == IF arg = <<>> THEN REQUIRED_APIS ELSE arg

\* What a remote call can do: answer, raise an Exception (HttpError, ...), or
\* raise a BaseException that is no Exception (KeyboardInterrupt).
GetAnswers == {"ENABLED", "DISABLED", "Error", "Interrupt"}
EnableAnswers == {"named", "unnamed", "Error", "Interrupt"}
PollAnswers == {"done", "pending", "Error", "Interrupt"}

\* A faulty enable_apis whose try block is around the loop, not in it.
ApcAfterRaiseMutant(answer) == "raised"

\* `except Exception as e` of line 76: the loop goes on with the next API.
\* Any other exception leaves enable_apis.
ApcAfterRaise(answer) == IF answer = "Error" THEN "get" ELSE "raised"

NoApiRun ==
  [attempted |-> <<>>, firstErr |-> 0, lastEnabled |-> 0, resp |-> "none",
   requested |-> FALSE, end |-> "none"]

ApiIdle ==
  /\ api_arg = <<>>
  /\ api_list = <<>>
  /\ apc = "idle"
  /\ aidx = 1
  /\ polls = 0
  /\ arun = NoApiRun

OrchIdle == InitOrch

\* enable_apis, lines 50-52: the default list is applied and the client built;
\* default() and discovery.build are outside the try block, so their
\* exceptions leave enable_apis.
EnableApisStart(setupOk) ==
  /\ apc = "idle"
  /\ api_list' = EffectiveList(api_arg)
  /\ aidx' = 1
  /\ apc' = IF setupOk THEN "get" ELSE "raised"
  /\ arun' = [arun EXCEPT !.end = IF setupOk THEN "none" ELSE "SetupError"]
  /\ UNCHANGED <<api_arg, polls>>
  /\ UNCHANGED <<orchVars, iamVars, saVars>>

\* The record of a raise while api_list[aidx] is handled.
Raised(r, answer) ==
  [r EXCEPT !.firstErr = IF answer = "Error" /\ @ = 0 THEN aidx ELSE @,
            !.end = IF answer = "Error" THEN @ ELSE "Interrupt"]

\* enable_apis, lines 54-61: services().get for the next API of the list.
ApiGet(answer) ==
  /\ apc = "get"
  /\ aidx <= Len(api_list)
  /\ polls' = 0
  /\ IF answer = "ENABLED"
       THEN /\ apc' = "get"
            /\ aidx' = aidx + 1
            /\ arun' = [arun EXCEPT !.attempted = Append(@, api_list[aidx]),
                                    !.resp = answer, !.requested = FALSE]
       ELSE IF answer = "DISABLED"
       THEN /\ apc' = "enable"
            /\ aidx' = aidx
            /\ arun' = [arun EXCEPT !.attempted = Append(@, api_list[aidx]),
                                    !.resp = answer, !.requested = FALSE]
       ELSE /\ apc' = ApcAfterRaise(answer)
            /\ aidx' = IF apc' = "get" THEN aidx + 1 ELSE aidx
            /\ arun' = [Raised(arun, answer) EXCEPT
                          !.attempted = Append(@, api_list[aidx]),
                          !.resp = answer, !.requested = FALSE]
  /\ UNCHANGED <<api_arg, api_list>>
  /\ UNCHANGED <<orchVars, iamVars, saVars>>

\* enable_apis, lines 63-67: services().enable; without a "name" in the answer
\* there is no operation to wait for.
ApiEnable(answer) ==
  /\ apc = "enable"
  /\ IF answer = "named"
       THEN /\ apc' = "poll"
            /\ aidx' = aidx
            /\ arun' = [arun EXCEPT !.requested = TRUE, !.resp = answer]
       ELSE IF answer = "unnamed"
       THEN /\ apc' = "get"
            /\ aidx' = aidx + 1
            /\ arun' = [arun EXCEPT !.requested = TRUE, !.resp = answer]
       ELSE /\ apc' = ApcAfterRaise(answer)
            /\ aidx' = IF apc' = "get" THEN aidx + 1 ELSE aidx
            /\ arun' = [Raised(arun, answer) EXCEPT !.requested = TRUE,
                                                    !.resp = answer]
  /\ UNCHANGED <<api_arg, api_list, polls>>
  /\ UNCHANGED <<orchVars, iamVars, saVars>>

\* A faulty wait that asks for the operation once and goes on whatever the
\* answer (an `if` where the code has a `while`).
ApiPollMutant(answer) ==
  /\ apc = "poll"
  /\ polls' = polls + 1
  /\ apc' = IF answer = "Interrupt" THEN "raised" ELSE "get"
  /\ aidx' = IF answer = "Interrupt" THEN aidx ELSE aidx + 1
  /\ arun' = IF answer = "done" THEN [arun EXCEPT !.lastEnabled = aidx, !.resp = answer]
             ELSE IF answer = "pending" THEN [arun EXCEPT !.resp = answer]
             ELSE [Raised(arun, answer) EXCEPT !.resp = answer]
  /\ UNCHANGED <<api_arg, api_list>>
  /\ UNCHANGED <<orchVars, iamVars, saVars>>

\* enable_apis, lines 69-74: one turn of the polling loop; an answer that is
\* not done is followed by time.sleep(2) and another turn.
ApiPoll(answer) ==
  /\ apc = "poll"
  /\ answer = "pending" => polls < MaxPolls
  /\ polls' = polls + 1
  /\ IF answer = "done"
       THEN /\ apc' = "get"
            /\ aidx' = aidx + 1
            /\ arun' = [arun EXCEPT !.lastEnabled = aidx, !.resp = answer]
       ELSE IF answer = "pending"
       THEN /\ apc' = "poll"
            /\ aidx' = aidx
            /\ arun' = [arun EXCEPT !.resp = answer]
       ELSE /\ apc' = ApcAfterRaise(answer)
            /\ aidx' = IF apc' = "get" THEN aidx + 1 ELSE aidx
            /\ arun' = [Raised(arun, answer) EXCEPT !.resp = answer]
  /\ UNCHANGED <<api_arg, api_list>>
  /\ UNCHANGED <<orchVars, iamVars, saVars>>

\* enable_apis: the for loop is exhausted and the function returns (None).
ApiLoopEnd ==
  /\ apc = "get"
  /\ aidx > Len(api_list)
  /\ apc' = "returned"
  /\ arun' = [arun EXCEPT !.end = "returned"]
  /\ UNCHANGED <<api_arg, api_list, aidx, polls>>
  /\ UNCHANGED <<orchVars, iamVars, saVars>>

NextApis ==
  \/ \E setupOk \in BOOLEAN : EnableApisStart(setupOk)
  \/ \E answer \in GetAnswers : ApiGet(answer)
  \/ \E answer \in EnableAnswers : ApiEnable(answer)
  \/ \E answer \in PollAnswers : ApiPoll(answer)
  \/ ApiLoopEnd

---------------------------------------------------------------------------
(* test.py: assign_roles_to_sa_in_project *)

\* A member string is modelled by its parts around the colon:
\* "user:alice" is <<"user", "alice">>, and a bare e-mail address is <<e>>.
\* f"serviceAccount:{sa_email}", lines 46 and 53.
SaMember(e) == <<"serviceAccount", e>>

\* The value of sa_email itself, as line 42 looks it up in the members.
Bare(e) == <<e>>

\* The service account of the __main__ block (lines 75-77), as
\* create_service_account returns it.
SaEmail == "sa-test1-a-468317@test2-b-468317.iam.gserviceaccount.com"

\* The role identifiers of `roles` arguments; __main__ passes ["roles/viewer"].
Roles == {"roles/viewer", "roles/editor"}

\* The `roles` arguments: the lists over Roles up to MaxRoles entries.
RolesArgs == UNION { [1 .. n -> Roles] : n \in 0 .. MaxRoles }

\* The member lists of the bindings a project policy holds at the start.
MemberLists ==
  { << <<"user", "alice">> >>, << SaMember(SaEmail) >>,
    << <<"user", "alice">>, SaMember(SaEmail) >> }

Bindings == [role : Roles, members : MemberLists]

\* The policies a project holds at the start: at most one binding per role.
InitPolicies ==
  {<<>>} \cup { <<b>> : b \in Bindings }
    \cup { <<b, c>> : <<b, c>> \in { x \in Bindings \X Bindings : x[1].role # x[2].role } }

\* The index of the first binding of the policy with this role, 0 without one
\* (the loop of lines 40-48 leaves at its first match).
FirstBinding(pol, role) ==
  IF \E k \in DOMAIN pol : pol[k].role = role
  THEN CHOOSE k \in DOMAIN pol :
         /\ pol[k].role = role
         /\ \A j \in 1 .. (k - 1) : pol[j].role # role
  ELSE 0

\* A faulty update that replaces the members of the binding by the account.
AssignRoleMutant(pol, role, e) ==
  LET k == FirstBinding(pol, role) IN
  IF k = 0 THEN Append(pol, [role |-> role, members |-> <<SaMember(e)>>])
  ELSE [pol EXCEPT ![k].members = <<SaMember(e)>>]

\* Lines 39-54: the policy after the local update for one role.  The test of
\* line 42 looks for sa_email itself; what line 46 appends is the prefixed
\* member.
AssignRole(pol, role, e) ==
  LET k == FirstBinding(pol, role) IN
  IF k = 0 THEN Append(pol, [role |-> role, members |-> <<SaMember(e)>>])
  ELSE IF InList(Bare(e), pol[k].members) THEN pol
  ELSE [pol EXCEPT ![k].members = Append(@, SaMember(e))]

\* A faulty write that applies the update to what the remote holds now.
PolicyWrittenMutant(localPol, remotePol, role) == AssignRole(remotePol, role, SaEmail)

\* Lines 56-63: what setIamPolicy stores: the policy as read by getIamPolicy
\* and updated locally; what the remote holds at that moment is not looked at.
PolicyWritten(localPol, remotePol, role) == AssignRole(localPol, role, SaEmail)

\* What a remote call of the function can do: answer, or raise (HttpError),
\* which nothing in the function catches.
RemoteAnswers == {"ok", "Error"}

IamIdle ==
  /\ policy = <<>>
  /\ policy0 = <<>>
  /\ local = <<>>
  /\ rpc = "idle"
  /\ rolesArg = <<>>
  /\ ridx = 1
  /\ rlog = <<>>
  /\ ncalls = 0
  /\ ext = 0

\* assign_roles_to_sa_in_project is called (again) with the same arguments.
AssignStart ==
  /\ rpc \in {"idle", "done", "raised"}
  /\ ncalls < MaxAssignCalls
  /\ ncalls' = ncalls + 1
  /\ policy0' = policy
  /\ local' = <<>>
  /\ ridx' = 1
  /\ rlog' = <<>>
  /\ rpc' = "get"
  /\ UNCHANGED <<policy, rolesArg, ext>>
  /\ UNCHANGED <<orchVars, apiVars, saVars>>

\* Lines 33-37: getIamPolicy for the next role of the list.
RoleGet(answer) ==
  /\ rpc = "get"
  /\ ridx <= Len(rolesArg)
  /\ rlog' = Append(rlog, <<"get", rolesArg[ridx]>>)
  /\ IF answer = "ok"
       THEN local' = policy /\ rpc' = "set"
       ELSE local' = local /\ rpc' = "raised"
  /\ UNCHANGED <<policy, policy0, rolesArg, ridx, ncalls, ext>>
  /\ UNCHANGED <<orchVars, apiVars, saVars>>

\* Lines 39-65: the local update and setIamPolicy for the role.
RoleSet(answer) ==
  /\ rpc = "set"
  /\ rlog' = Append(rlog, <<"set", rolesArg[ridx]>>)
  /\ local' = AssignRole(local, rolesArg[ridx], SaEmail)
  /\ IF answer = "ok"
       THEN /\ policy' = PolicyWritten(local, policy, rolesArg[ridx])
            /\ ridx' = ridx + 1
            /\ rpc' = "get"
       ELSE /\ policy' = policy
            /\ ridx' = ridx
            /\ rpc' = "raised"
  /\ UNCHANGED <<policy0, rolesArg, ncalls, ext>>
  /\ UNCHANGED <<orchVars, apiVars, saVars>>

\* The loop over roles is exhausted and the function returns.
AssignEnd ==
  /\ rpc = "get"
  /\ ridx > Len(rolesArg)
  /\ rpc' = "done"
  /\ UNCHANGED <<policy, policy0, local, rolesArg, ridx, rlog, ncalls, ext>>
  /\ UNCHANGED <<orchVars, apiVars, saVars>>

\* The member another writer grants a role to.
ExtMember == <<"user", "bob">>

\* Another writer of the project policy (a second process, the console)
\* grants `role` to ExtMember.  Nothing in test.py excludes it.
ExternalModify(role) ==
  /\ ext < MaxExternal
  /\ ext' = ext + 1
  /\ LET k == FirstBinding(policy, role) IN
       policy' = IF k = 0
                 THEN Append(policy, [role |-> role, members |-> <<ExtMember>>])
                 ELSE [policy EXCEPT ![k].members = Append(@, ExtMember)]
  /\ UNCHANGED <<policy0, local, rpc, rolesArg, ridx, rlog, ncalls>>
  /\ UNCHANGED <<orchVars, apiVars, saVars>>

NextRoles ==
  \/ AssignStart
  \/ \E answer \in RemoteAnswers : RoleGet(answer)
  \/ \E answer \in RemoteAnswers : RoleSet(answer)
  \/ AssignEnd

NextRolesRace ==
  \/ NextRoles
  \/ \E role \in Roles : ExternalModify(role)

---------------------------------------------------------------------------
(* test.py: create_service_account *)

\* The project and account identifiers of the calls.
Projects == {"test2-b-468317", "test1-a-468317"}
AccountIds == {"sa-test1-a-468317", "sa-other"}

\* Line 6: f"{service_account_id}@{project_id}.iam.gserviceaccount.com", by its parts.
ServiceAccountEmail(project, id) == <<id, "@", project, ".iam.gserviceaccount.com">>

\* What serviceAccounts().create can do for an account: create it, refuse it
\* because it exists (an error whose text holds 'already exists'), or fail
\* otherwise (permission denied, quota, network).
CreateAnswers(accounts, email) ==
  (IF email \in accounts THEN {"AlreadyExists"} ELSE {"created"}) \cup {"OtherError"}

\* A faulty handler that re-raises every error.
SaOutcomeMutant(answer) == IF answer = "created" THEN "returned" ELSE "raised"

\* Lines 22-30: the function returns the e-mail after a creation and after an
\* error whose text holds 'already exists'; any other error is re-raised.
SaOutcome(answer) ==
  IF answer = "created" \/ answer = "AlreadyExists" THEN "returned" ELSE "raised"

SaIdle ==
  /\ sa_accounts = {}
  /\ sa_calls = <<>>

\* create_service_account(project, id, display_name) is called and ends.
CreateServiceAccount(project, id, answer) ==
  /\ Len(sa_calls) < MaxSaCalls
  /\ answer \in CreateAnswers(sa_accounts, ServiceAccountEmail(project, id))
  /\ sa_accounts' = IF answer = "created"
                    THEN sa_accounts \cup {ServiceAccountEmail(project, id)}
                    ELSE sa_accounts
  /\ sa_calls' = Append(sa_calls,
                   [project |-> project, id |-> id, answer |-> answer,
                    result |-> SaOutcome(answer),
                    email |-> IF SaOutcome(answer) = "returned"
                              THEN ServiceAccountEmail(project, id) ELSE <<>>])
  /\ UNCHANGED <<orchVars, apiVars, iamVars>>

NextSa ==
  \E project \in Projects, id \in AccountIds,
     answer \in {"created", "AlreadyExists", "OtherError"} :
       CreateServiceAccount(project, id, answer)

---------------------------------------------------------------------------
(* Specifications *)

\* The runner, started again and again from an absent checkpoint file.
Init == InitOrch /\ ApiIdle /\ IamIdle /\ SaIdle

Next == NextOrch

Spec == Init /\ [][Next]_vars

\* The completed lists a checkpoint file can hold: the names of any of the
\* steps, each once, in any order.
CompletedLists ==
  { c \in UNION { [1..n -> StepNames] : n \in 0..Len(STEPS) } :
      \A j, k \in DOMAIN c : c[j] = c[k] => j = k }

\* The runner started on a checkpoint file that is absent or holds any
\* completed list, a prefix of STEPS or not.
InitAny ==
  /\ file \in {Absent} \cup { [exists |-> TRUE, content |-> json_dump([completed |-> c])] :
                                c \in CompletedLists }
  /\ pc = "idle"
  /\ state = [completed |-> <<>>]
  /\ i = 1
  /\ pending = <<>>
  /\ before = Absent
  /\ runs = 0
  /\ run = NoRun
  /\ prev = NoPrev
  /\ succeeded = {}
  /\ persistedBefore = {}
  /\ ApiIdle
  /\ IamIdle
  /\ SaIdle

SpecAny == InitAny /\ [][Next]_vars

\* One call of enable_apis for each api_list argument.
InitApis ==
  /\ OrchIdle
  /\ api_arg \in ApiArgs
  /\ api_list = <<>>
  /\ apc = "idle"
  /\ aidx = 1
  /\ polls = 0
  /\ arun = NoApiRun
  /\ IamIdle
  /\ SaIdle

SpecApis == InitApis /\ [][NextApis]_vars

\* The same call when every remote call returns or raises (the function
\* always takes its next step) and no operation is reported pending more
\* than MaxPolls times.
SpecApisFair == InitApis /\ [][NextApis]_vars /\ WF_vars(NextApis)

\* Calls of assign_roles_to_sa_in_project with the same arguments, one after
\* the other, on a project policy nobody else modifies.
InitRoles ==
  /\ OrchIdle
  /\ ApiIdle
  /\ SaIdle
  /\ policy \in InitPolicies
  /\ policy0 = policy
  /\ local = <<>>
  /\ rpc = "idle"
  /\ rolesArg \in RolesArgs
  /\ ridx = 1
  /\ rlog = <<>>
  /\ ncalls = 0
  /\ ext = 0

SpecRoles == InitRoles /\ [][NextRoles]_vars

\* The same calls with other writers of the project policy.
SpecRolesRace == InitRoles /\ [][NextRolesRace]_vars

\* Calls of create_service_account, on a remote that holds any of the accounts.
InitSa ==
  /\ OrchIdle
  /\ ApiIdle
  /\ IamIdle
  /\ sa_accounts \in SUBSET { ServiceAccountEmail(p, a) : p \in Projects, a \in AccountIds }
  /\ sa_calls = <<>>

SpecSa == InitSa /\ [][NextSa]_vars


---------------------------------------------------------------------------
(* Properties *)

\* The step names in STEPS order.
StepSeq == [k \in DOMAIN STEPS |-> STEPS[k].name]

IsPrefix(a, b) == Len(a) <= Len(b) /\ SubSeq(b, 1, Len(a)) = a

RECURSIVE Without(_, _)
\* The entries of sequence s that are not in list done, in the order of s.
Without(s, done) ==
  IF s = <<>> THEN <<>>
  ELSE IF InList(Head(s), done) THEN Without(Tail(s), done)
  ELSE <<Head(s)>> \o Without(Tail(s), done)

\* The place of a step name in STEPS.
IndexOf(name) == CHOOSE k \in DOMAIN STEPS : STEPS[k].name = name

\* The checkpoint file holds this completed list, completely written.
Holds(f, completed) == f.exists /\ f.content = json_dump([completed |-> completed])

\* C1: when the invocation of a step raises an error, the in-memory completed
\* list and the checkpoint file are what they were before the invocation,
\* main leaves the loop, and no further step is invoked in that run.
C1_FailedStepStopsRun ==
  [][ /\ (run'.stop \in Exceptions /\ run.stop = "none" /\ runs' = runs)
           => /\ state' = state
              /\ file' = file
              /\ pc' = "returned"
              /\ ~InList(run'.failed, state'.completed)
      /\ (run.stop \in Exceptions /\ runs' = runs)
           => /\ run'.invoked = run.invoked
              /\ file' = file ]_vars

\* C1 witness: STEPS = [A, B, C, D], completed = [A], B has failed: the run is
\* over, and memory and file still hold [A].
C1_Witness ==
  /\ pc = "returned"
  /\ run.stop \in Exceptions
  /\ run.failed = "enable_apis"
  /\ run.invoked = <<"enable_apis">>
  /\ state.completed = <<"create_project">>
  /\ Holds(file, <<"create_project">>)

\* C2: after a run stopped on a failed step, the next run loads what the
\* stopped run had persisted, the first step it invokes is the failed step,
\* which is the first step of STEPS not in the persisted list, and no step
\* before it is invoked again.
C2_ResumeAtFailedStep ==
  (runs >= 2 /\ prev.pc = "returned" /\ prev.stop \in Exceptions)
    => /\ run.loadOk
       /\ run.loaded = prev.completed
       /\ ~InList(prev.failed, run.loaded)
       /\ run.invoked # <<>>
            => /\ run.invoked[1] = prev.failed
               /\ run.invoked[1] = Head(Without(StepSeq, run.loaded))
       /\ \A k \in DOMAIN run.invoked : IndexOf(run.invoked[k]) >= IndexOf(prev.failed)

\* C2 witness: the previous run stopped on the failure of the third step and
\* this run has loaded the two completed steps and invoked a step.
C2_Witness ==
  /\ runs >= 2
  /\ prev.pc = "returned"
  /\ prev.stop \in Exceptions
  /\ prev.failed = "configure_network"
  /\ run.loaded = <<"create_project", "enable_apis">>
  /\ run.invoked # <<>>

\* C3 as stated: every run of main that returns has invoked exactly the steps
\* of STEPS that were not in the loaded prefix, in STEPS order.
C3_Original ==
  pc = "returned" => run.invoked = Without(StepSeq, run.loaded)

\* C3 amended: the loaded list P is a prefix of STEPS; every run invokes a
\* prefix of STEPS \ P in STEPS order; and a run that returns without a step
\* or a save having raised has invoked exactly STEPS \ P.
C3_ExactlyRemaining ==
  /\ IsPrefix(run.loaded, StepSeq)
  /\ IsPrefix(run.invoked, Without(StepSeq, run.loaded))
  /\ (pc = "returned" /\ run.stop = "none")
       => run.invoked = Without(StepSeq, run.loaded)

\* C3 witness: a run that loaded the prefix [A] has returned after invoking
\* B, C and D.
C3_Witness ==
  /\ pc = "returned"
  /\ run.stop = "none"
  /\ run.loaded = <<"create_project">>
  /\ run.invoked = <<"enable_apis", "configure_network", "deploy_app">>

\* C4 as stated: a run that follows a run that returned invokes no step.
C4_Original ==
  (runs >= 2 /\ prev.pc = "returned") => run.invoked = <<>>

\* C4 amended: a run that follows a run which returned without a step or a
\* save having raised loads a list that holds every step, invokes no step and
\* does not write the checkpoint.
C4_SecondRunSkipsAll ==
  (runs >= 2 /\ prev.pc = "returned" /\ prev.stop = "none")
    => /\ run.loadOk
       /\ \A n \in StepNames : InList(n, run.loaded)
       /\ run.invoked = <<>>
       /\ run.writes = 0

\* C4 witness: the second of two runs has returned, the first having invoked
\* steps and returned with none failed.
C4_Witness ==
  /\ runs >= 2
  /\ prev.pc = "returned"
  /\ prev.stop = "none"
  /\ prev.invoked # <<>>
  /\ pc = "returned"

\* C5: a step name is in the persisted completed list (and in whatever part
\* of it a save has written so far) only if an invocation of that step has
\* returned without error.
C5_PersistedOnlySucceeded ==
  /\ \A k \in DOMAIN file.content :
       file.content[k] \notin Punct => file.content[k] \in succeeded
  /\ LET l == load_checkpoint(file) IN
       l.ok => \A k \in DOMAIN l.value.completed : l.value.completed[k] \in succeeded

\* C5 witness: the checkpoint holds [A] and the run has stopped on B's failure.
C5_Witness ==
  /\ Holds(file, <<"create_project">>)
  /\ run.failed = "enable_apis"
  /\ run.stop \in Exceptions
  /\ "enable_apis" \notin succeeded

\* C6: after a crash that followed the persisting of step k and came before
\* step k+1 started, the next run loads steps 1..k and the first step it
\* invokes is step k+1; and no run invokes a step whose name a complete
\* checkpoint held when the run started.
C6_CrashResume ==
  /\ (runs >= 2 /\ prev.pc = "crashed" /\ prev.crashAt = "loop" /\ prev.lastOk > 0)
       => /\ run.loadOk
          /\ \A j \in 1 .. prev.lastOk : InList(StepSeq[j], run.loaded)
          /\ run.invoked # <<>>
               => /\ prev.lastOk < Len(STEPS)
                  /\ run.invoked[1] = StepSeq[prev.lastOk + 1]
  /\ \A k \in DOMAIN run.invoked : run.invoked[k] \notin persistedBefore

\* C6 witness: the previous run crashed after persisting the second step and
\* this run has invoked a step.
C6_Witness ==
  /\ runs >= 2
  /\ prev.pc = "crashed"
  /\ prev.crashAt = "loop"
  /\ prev.lastOk = 2
  /\ run.invoked # <<>>

\* C7 as stated: after a crash during save_checkpoint the file holds the
\* complete old content or the complete new content, and can be loaded.
C7_SaveCrashAtomic ==
  (pc = "crashed" /\ run.crashAt = "write")
    => /\ file = before \/ Holds(file, state.completed)
       /\ load_checkpoint(file).ok

\* C8 as stated: load_checkpoint on an absent or an empty file yields an
\* empty completed list and does not raise.
C8_LoadEmptyOrAbsent ==
  (runs >= 1 /\ (~run.startFile.exists \/ run.startFile.content = <<>>))
    => run.loadOk /\ run.loaded = <<>>

\* C9: when resolving or calling a step's target raises an Exception, main
\* does not propagate it: the run is over, main has returned, and the failed
\* step is the last one invoked.
C9_StepErrorIsCaught ==
  run.stop \in Exceptions
    => /\ pc = "returned"
       /\ run.invoked # <<>>
       /\ run.invoked[Len(run.invoked)] = run.failed

\* C9 witness: importing the module of the second step has failed.
C9_Witness ==
  /\ run.stop = "ImportError"
  /\ run.failed = "enable_apis"
  /\ pc = "returned"

\* C10: enable_apis attempts the APIs of its list in list order; an Exception
\* raised while an API is checked or enabled never leaves the function; and
\* when the function returns, every API of the list has been attempted.
C10_EveryApiAttempted ==
  /\ IsPrefix(arun.attempted, api_list)
  /\ apc = "raised" => arun.end \in {"SetupError", "Interrupt"}
  /\ apc = "returned" => arun.attempted = api_list
  /\ (arun.firstErr > 0 /\ arun.end # "Interrupt")
       => /\ apc \in {"get", "enable", "poll", "returned"}
          /\ aidx > arun.firstErr

\* C10 witness: the list is [x, y], x failed, y was enabled, and
\* enable_apis has returned.
C10_Witness ==
  /\ api_list = <<"x.googleapis.com", "y.googleapis.com">>
  /\ arun.firstErr = 1
  /\ arun.lastEnabled = 2
  /\ apc = "returned"


\* The number of entries of a list equal to x.
RECURSIVE Count(_, _)
Count(x, lst) ==
  IF lst = <<>> THEN 0
  ELSE (IF Head(lst) = x THEN 1 ELSE 0) + Count(x, Tail(lst))

\* The list has no entry twice.
NoDuplicates(lst) == \A j, k \in DOMAIN lst : lst[j] = lst[k] => j = k

\* The <<role, member>> grants a policy holds.
Pairs(pol) ==
  UNION { { <<pol[k].role, pol[k].members[j]>> : j \in DOMAIN pol[k].members } :
          k \in DOMAIN pol }

\* C11 as stated: after any number of calls of assign_roles_to_sa_in_project
\* with the same arguments (a list of distinct roles), the binding of each of
\* the roles holds the service account exactly once.
C11_MemberBoundOnce ==
  (rpc = "done" /\ NoDuplicates(rolesArg))
    => \A k \in DOMAIN policy :
         InList(policy[k].role, rolesArg)
           => Count(SaMember(SaEmail), policy[k].members) = 1

\* C12: a call of create_service_account that the remote answers with an
\* error other than 'already exists' raises; a call that follows a returned
\* call with the same project and account id, and is not answered by such an
\* error, returns too, with the same e-mail address.
C12_CreateTwice ==
  \A l \in DOMAIN sa_calls :
    /\ sa_calls[l].answer = "OtherError" => sa_calls[l].result = "raised"
    /\ \A k \in 1 .. (l - 1) :
         ( /\ sa_calls[k].project = sa_calls[l].project
           /\ sa_calls[k].id = sa_calls[l].id
           /\ sa_calls[k].result = "returned"
           /\ sa_calls[l].answer # "OtherError" )
           => /\ sa_calls[l].answer = "AlreadyExists"
              /\ sa_calls[l].result = "returned"
              /\ sa_calls[l].email = sa_calls[k].email

\* C12 witness: the first call created the account, the second call with the
\* same arguments got 'already exists', and both returned.
C12_Witness ==
  /\ Len(sa_calls) >= 2
  /\ sa_calls[1].answer = "created"
  /\ sa_calls[2].answer = "AlreadyExists"
  /\ sa_calls[1].project = sa_calls[2].project
  /\ sa_calls[1].id = sa_calls[2].id
  /\ sa_calls[2].result = "returned"

\* C16: when assign_roles_to_sa_in_project has returned and nobody else
\* modified the policy, every role of the list has a binding that holds the
\* service account, every binding and member the policy held before the call
\* is still there, and the function has issued one getIamPolicy followed by
\* one setIamPolicy for each role, in list order.
C16_AssignPostcondition ==
  rpc = "done"
    => /\ \A j \in DOMAIN rolesArg :
            \E k \in DOMAIN policy :
              /\ policy[k].role = rolesArg[j]
              /\ InList(SaMember(SaEmail), policy[k].members)
       /\ \A k \in DOMAIN policy0 :
            /\ k \in DOMAIN policy
            /\ policy[k].role = policy0[k].role
            /\ IsPrefix(policy0[k].members, policy[k].members)
       /\ Len(rlog) = 2 * Len(rolesArg)
       /\ \A j \in DOMAIN rolesArg :
            /\ rlog[2 * j - 1] = <<"get", rolesArg[j]>>
            /\ rlog[2 * j] = <<"set", rolesArg[j]>>

\* C16 witness: the call was for two roles, the policy held a binding of the
\* first without the account and no binding of the second, and the function
\* has returned.
C16_Witness ==
  /\ rpc = "done"
  /\ Len(rolesArg) = 2
  /\ rolesArg[1] # rolesArg[2]
  /\ Len(policy0) = 1
  /\ policy0[1].role = rolesArg[1]
  /\ policy0[1].members = << <<"user", "alice">> >>
  /\ Len(policy) = 2

\* C17: a successful setIamPolicy of the function leaves the remote with the
\* grants of the copy read by getIamPolicy and the account's grant, and
\* nothing else: a grant another writer made after the read is overwritten.
C17_WriteIgnoresRemote ==
  [][ (rpc = "set" /\ rpc' = "get")
        => Pairs(policy') \subseteq
             (Pairs(local) \cup {<<rolesArg[ridx], SaMember(SaEmail)>>}) ]_vars

\* C17 witness: another writer has granted a role to ExtMember, the function
\* has returned, and the policy holds no grant to ExtMember: it was made
\* between a getIamPolicy and the setIamPolicy that overwrote it.
C17_Witness ==
  /\ ext = 1
  /\ rpc = "done"
  /\ \A g \in Pairs(policy) : g[2] # ExtMember


\* C15: under SpecApisFair enable_apis ends, and unless the client could not
\* be built or the call was interrupted it ends by returning with every API
\* of the list handled; an API whose state query answered ENABLED gets no
\* enable request; and the polling loop is left only by an answer that is
\* done or by a raise.
C15_EnableApisTerminates ==
  /\ <>(apc \in {"returned", "raised"})
  /\ [](apc = "raised" => arun.end \in {"SetupError", "Interrupt"})
  /\ [](apc = "returned" => arun.attempted = api_list /\ aidx = Len(api_list) + 1)
  /\ [][ /\ (apc = "get" /\ arun'.attempted # arun.attempted /\ arun'.resp = "ENABLED")
              => (apc' = "get" /\ aidx' = aidx + 1 /\ ~arun'.requested)
         /\ arun'.requested => arun'.resp # "ENABLED"
         /\ (apc = "poll" /\ apc' # "poll")
              => arun'.resp \in {"done", "Error", "Interrupt"}
         /\ (apc = "poll" /\ arun'.resp = "pending") => (apc' = "poll" /\ aidx' = aidx)
       ]_vars

\* C15 witness: the list is [x, y]; x was reported ENABLED, y was enabled
\* after MaxPolls pending answers, and enable_apis has returned.
C15_Witness ==
  /\ api_list = <<"x.googleapis.com", "y.googleapis.com">>
  /\ arun.firstErr = 0
  /\ arun.lastEnabled = 2
  /\ polls = MaxPolls + 1
  /\ apc = "returned"


\* C13: whenever a step's target is invoked after other steps were invoked
\* in the same run, the checkpoint file is completely written and holds the
\* list loaded at the start of the run followed by the names of all steps
\* invoked (and so succeeded) earlier in this run.
C13_PersistedBeforeNextStep ==
  [][ (runs' = runs /\ run'.invoked # run.invoked /\ run.invoked # <<>>)
        => /\ Holds(file, run.loaded \o run.invoked)
           /\ load_checkpoint(file).ok
           /\ \A k \in DOMAIN run.invoked :
                /\ run.invoked[k] \in succeeded
                /\ InList(run.invoked[k], load_checkpoint(file).value.completed)
    ]_vars

\* C13 witness: STEPS = [A, B, C, D], the run loaded [A], B succeeded, the
\* file holds [A, B] and C has just been invoked.
C13_Witness ==
  /\ run.loaded = <<"create_project">>
  /\ run.invoked = <<"enable_apis", "configure_network">>
  /\ Holds(file, <<"create_project", "enable_apis">>)
  /\ i = 3


\* C14: whatever completed list C a run loaded, prefix of STEPS or not, the
\* run invokes no step whose name is in C; the steps it invokes are the steps
\* not in C taken in STEPS order, each once, without leaving one out; no
\* step is invoked after one that failed; and a run that returns without an
\* error has invoked all steps not in C.
C14_InvokesOnlyIncomplete ==
  /\ \A k \in DOMAIN run.invoked : ~InList(run.invoked[k], run.loaded)
  /\ IsPrefix(run.invoked, Without(StepSeq, run.loaded))
  /\ NoDuplicates(run.invoked)
  /\ run.stop \in Exceptions
       => /\ run.invoked # <<>>
          /\ run.invoked[Len(run.invoked)] = run.failed
          /\ pc = "returned"
  /\ (pc = "returned" /\ run.stop = "none")
       => run.invoked = Without(StepSeq, run.loaded)

\* C14 witness: STEPS = [A, B, C, D], the run loaded [D, B], invoked A and
\* then C, and returned.
C14_Witness ==
  /\ run.loaded = <<"deploy_app", "enable_apis">>
  /\ run.invoked = <<"create_project", "configure_network">>
  /\ run.stop = "none"
  /\ pc = "returned"


\* C18: at the moment main invokes the target of a step, the step invoked is
\* STEPS[i] and every step before it in STEPS is in the in-memory completed
\* list, either loaded at the start of the run (and skipped) or invoked with
\* success earlier in the run.
C18_EarlierStepsComplete ==
  [][ (runs' = runs /\ run'.invoked # run.invoked)
        => /\ run'.invoked = Append(run.invoked, StepSeq[i])
           /\ \A j \in 1..(i - 1) :
                /\ InList(StepSeq[j], state.completed)
                /\ InList(StepSeq[j], run.loaded) \/ InList(StepSeq[j], run.invoked)
                /\ InList(StepSeq[j], run.invoked) => StepSeq[j] \in succeeded
    ]_vars

\* C18 witness: STEPS = [A, B, C, D], the run loaded [C], invoked A and B
\* with success, skipped C, and has just invoked D.
C18_Witness ==
  /\ run.loaded = <<"configure_network">>
  /\ run.invoked = <<"create_project", "enable_apis", "deploy_app">>
  /\ i = 4
  /\ pc \in {"save", "returned"}


\* C19 as stated: over any sequence of runs that starts from an absent file,
\* at every point of a run outside save_checkpoint the checkpoint file holds
\* a completed list without a name twice and with names of STEPS only, every
\* persisted name is in the in-memory list, and the in-memory list has at
\* most one name more, the step that succeeded most recently; and after a
\* run that a failing save_checkpoint stopped, the next run loads the
\* checkpoint without the unpersisted step, which it has to invoke again.
C19_PersistedWithinMemory ==
  LET l == load_checkpoint(file)
      persisted == l.value.completed
  IN
  /\ (pc \in {"loop", "save", "returned"} /\ run.loadOk)
       => /\ l.ok
          /\ NoDuplicates(persisted)
          /\ \A k \in DOMAIN persisted :
               /\ persisted[k] \in StepNames
               /\ InList(persisted[k], state.completed)
          /\ \A k \in DOMAIN state.completed :
               ~InList(state.completed[k], persisted)
                 => /\ run.invoked # <<>>
                    /\ state.completed[k] = run.invoked[Len(run.invoked)]
                    /\ state.completed[k] \in succeeded
  /\ (runs >= 2 /\ prev.stop = "SaveError")
       => /\ run.loadOk
          /\ ~InList(prev.failed, run.loaded)


\* C20: a skipped step and a failed step leave the in-memory completed list
\* and the checkpoint file as they were; save_checkpoint is entered only
\* directly after a step invocation that succeeded, and the file changes
\* only inside save_checkpoint; so a run that has invoked no step, or whose
\* first invoked step failed, has not written the file.
C20_SkipAndFailureFrame ==
  /\ [][ /\ (pc = "loop" /\ pc' = "loop" /\ i' # i /\ runs' = runs)
              => (state' = state /\ file' = file /\ run'.invoked = run.invoked)
         /\ (run'.stop \in Exceptions /\ run.stop = "none")
              => (state' = state /\ file' = file /\ run'.writes = run.writes)
         /\ (pc' = "save" /\ pc # "save")
              => /\ pc = "loop"
                 /\ run'.invoked = Append(run.invoked, StepSeq[i])
                 /\ run'.stop = "none"
                 /\ StepSeq[i] \in succeeded'
         /\ (run'.writes # run.writes /\ runs' = runs) => pc = "save"
         /\ file' # file => pc \in {"save", "write"}
       ]_vars
  /\ [](((runs >= 1 /\ run.invoked = <<>>)
           \/ (Len(run.invoked) = 1 /\ run.stop \in Exceptions))
          => (run.writes = 0 /\ file = run.startFile))

\* C20 witness: STEPS = [A, B, C, D], the run loaded [A, B] and skipped A and
\* B; C, its first incomplete step, failed; the run is over without a write.
C20_Witness ==
  /\ run.loaded = <<"create_project", "enable_apis">>
  /\ run.invoked = <<"configure_network">>
  /\ run.stop \in Exceptions
  /\ run.writes = 0
  /\ file = run.startFile
  /\ i = 3
  /\ pc = "returned"

===========================================================================
